---- MODULE Spec2Model ----
(***************************************************************************)
(* A model of tiling-patterns (src/src/main.rs): the anchor sampler        *)
(* (generate_anchor_points), the per-pixel scan (pixel_calculator,         *)
(* Point::closest_anchor), the banded rasterizer                           *)
(* (generate_voronoi_random_pattern), the colour variation                 *)
(* (generate_color_like), the square lattice (generate_square_pattern)     *)
(* and the hexagon lattice (generate_hexagon_anchors).                     *)
(*                                                                         *)
(* Each subsystem has its own specification over the same variables; the   *)
(* variables of the other subsystems stay at their idle values.            *)
(* Random draws are nondeterministic choices.  f64 points are restricted   *)
(* to a lattice, on which every distance comparison of the code is exact   *)
(* integer arithmetic.                                                     *)
(***************************************************************************)
EXTENDS Integers, Sequences, FiniteSets, TLC

VARIABLES
    \* ---- generate_anchor_points ----
    sampler_pc,                \* position in generate_anchor_points
    build,                     \* "debug" (overflow checks on) or "release"
    lattice_step,              \* pixels per lattice step of this run
    bounds,                    \* Bounds, in lattice steps
    minimum_distance,          \* in lattice steps (pixels in the rasterizer)
    squared_minimum_distance,  \* u32 product of line 195, in square steps
    final_anchors,             \* Vec<Point>
    anchor_candidates,         \* VecDeque<Point>
    generated,                 \* loop counter of generate_anchor_candidates
    recursion_depth,           \* nested random_point_at_certain_distance calls
    popped,                    \* number of candidates popped so far
    \* ---- inputs of the rasterizer and of the lattices (pixels) ----
    image_width,
    image_height,
    anchors,                          \* Vec<Anchor>
    minimum_distance_between_anchors,
    \* ---- pixel_calculator, called on its own ----
    scan_pc,                   \* "call" before, "returned" after the call
    column,                    \* x: the column of the call
    pixels,                    \* the returned Vec<(Point, Rgba<u8>)>
    \* ---- generate_voronoi_random_pattern, from line 304 on ----
    raster_pc,                 \* position of the coordinating thread
    step,                      \* first column of the current band
    thread_pool,               \* the JoinHandles not yet joined, by column
    thread,                    \* column -> state of its worker thread
    results,                   \* column -> the Vec its worker returned
    img,                       \* the RgbaImage: pixel -> colour
    put_log,                   \* the put_pixel calls so far, in order
    \* ---- generate_color_like ----
    color_pc,                  \* "call", "returned" or "panicked"
    base_color,                \* the base colour, by its Hsl coordinates
    new_color,                 \* the returned colour, by its Hsl coordinates
    \* ---- generate_square_pattern ----
    square_pc,                 \* "loop", "returned" or "panicked"
    pattern_size,
    tile_i,                    \* i of line 410
    tile_j,                    \* j of line 411
    drawn,                     \* the draw_filled_rect_mut calls so far: the image
    \* ---- generate_hexagon_anchors ----
    hex_pc,                    \* "loop" or "returned"
    hex_i,                     \* i of line 428
    hex_j,                     \* j of line 429
    hexagon_anchors            \* anchors: Vec<[Point; 6]>

samplerVars == <<sampler_pc, build, lattice_step, bounds, minimum_distance,
                 squared_minimum_distance, final_anchors, anchor_candidates,
                 generated, recursion_depth, popped>>

inputVars == <<image_width, image_height, anchors, minimum_distance_between_anchors>>

scanVars == <<scan_pc, column, pixels>>

rasterVars == <<raster_pc, step, thread_pool, thread, results, img, put_log>>

colorVars == <<color_pc, new_color>>

squareVars == <<square_pc, pattern_size, tile_i, tile_j, drawn>>

hexVars == <<hex_pc, hex_i, hex_j, hexagon_anchors>>

vars == <<samplerVars, inputVars, scanVars, rasterVars, base_color, colorVars,
          squareVars, hexVars>>

\* what each subsystem leaves alone
notSampler == <<inputVars, scanVars, rasterVars, base_color, colorVars, squareVars,
                hexVars>>
notScan == <<samplerVars, rasterVars, base_color, colorVars, squareVars, hexVars>>
notRaster == <<samplerVars, scanVars, base_color, colorVars, squareVars, hexVars>>
notColor == <<samplerVars, inputVars, scanVars, rasterVars, squareVars, hexVars>>
notSquare == <<samplerVars, scanVars, rasterVars, colorVars, hexVars>>
notHex == <<samplerVars, inputVars, scanVars, rasterVars, base_color, colorVars,
            squareVars>>

----------------------------------------------------------------------------
(* Bounds of the model *)

MaxWidth == 4
MaxHeight == 3
MaxArea == 9
MaxMinimumDistance == 2
\* stands for the 25 of generate_anchor_candidates (line 184): the claims
\* are stated for CandidatesPerAnchor, whatever its value
CandidatesPerAnchor == 2
MaxAccepted == 5
MaxRecursion == 1
\* the scan: anchors and pixels on the lattice 0..ScanGrid
ScanGrid == 2
MaxScanAnchors == 2
MaxPixelDistance == 3
\* the rasterizer
MaxImageWidth == 11
MaxImageHeight == 1
MaxRasterAnchors == 1
AnchorStride == 10
MaxPanics == 1
\* the colours
MaxHue == 2
MaxSaturation == 2
MaxLightness == 2
\* the square lattice
MaxSquareWidth == 3
MaxSquareHeight == 3
MaxSquareSize == 3
MaxTiles == 9
ProbeLimit == 3
\* the hexagon lattice
MaxHexWidth == 5
MaxHexHeight == 3
MaxHexSize == 3

----------------------------------------------------------------------------
(* Point *)

Pt(px, py) == [x |-> px, y |-> py]

\* Point::squared_distance_from
squared_distance_from(p, q) ==
    (p.x - q.x) * (p.x - q.x) + (p.y - q.y) * (p.y - q.y)

----------------------------------------------------------------------------
(* u32 arithmetic of generate_anchor_points.  Lengths are counted in       *)
(* lattice steps of lattice_step pixels, so the u32 modulus 2^32 square    *)
(* pixels is (U32Root / lattice_step)^2 square steps.                      *)

U32Root == 65536
LatticeSteps == {32768, 65536}

U32SquareModulus(lstep) == (U32Root \div lstep) * (U32Root \div lstep)

\* minimum_distance * minimum_distance overflows u32
SquareOverflows(md, lstep) == md * md >= U32SquareModulus(lstep)

\* the wrapped product of a release build
WrappingSquare(md, lstep) == (md * md) % U32SquareModulus(lstep)

----------------------------------------------------------------------------
(* Point::random_point_at_certain_distance: the points the draw of one     *)
(* call can produce around `self`: distance in [minimum, maximum)          *)

DrawnPoints(self, dmin, dmax) ==
    { Pt(self.x + dx, self.y + dy) : dx \in (-dmax)..dmax, dy \in (-dmax)..dmax }
        \cap { p \in [x : (self.x - dmax)..(self.x + dmax),
                      y : (self.y - dmax)..(self.y + dmax)] :
                 /\ squared_distance_from(self, p) >= dmin * dmin
                 /\ squared_distance_from(self, p) < dmax * dmax }

\* the bounds with their edges included
InBoundsClosed(p, b) ==
    /\ p.x >= 0 /\ p.x <= b.width
    /\ p.y >= 0 /\ p.y <= b.height

InBounds(p, b) ==
    /\ p.x > 0 /\ p.x < b.width
    /\ p.y > 0 /\ p.y < b.height

\* the validity loop of generate_anchor_points (lines 219-226)
IsValidAnchor(candidate, accepted, sq) ==
    \A k \in 1..Len(accepted) : ~(squared_distance_from(accepted[k], candidate) < sq)

----------------------------------------------------------------------------
(* generate_anchor_points *)

IdleInputs ==
    /\ image_width = 0
    /\ image_height = 0
    /\ anchors = <<>>
    /\ minimum_distance_between_anchors = 0

IdleScan ==
    /\ scan_pc = "idle"
    /\ column = 0
    /\ pixels = <<>>

IdleRaster ==
    /\ raster_pc = "idle"
    /\ step = 0
    /\ thread_pool = <<>>
    /\ thread = <<>>
    /\ results = <<>>
    /\ img = <<>>
    /\ put_log = <<>>

NoColor == [none |-> TRUE]

IdleColor ==
    /\ color_pc = "idle"
    /\ base_color = NoColor
    /\ new_color = NoColor

IdleSquare ==
    /\ square_pc = "idle"
    /\ pattern_size = 0
    /\ tile_i = 0
    /\ tile_j = 0
    /\ drawn = <<>>

IdleHex ==
    /\ hex_pc = "idle"
    /\ hex_i = 0
    /\ hex_j = 0
    /\ hexagon_anchors = <<>>

IdleSampler ==
    /\ sampler_pc = "idle"
    /\ build = "release"
    /\ lattice_step = 1
    /\ bounds = [width |-> 0, height |-> 0]
    /\ minimum_distance = 0
    /\ squared_minimum_distance = 0
    /\ final_anchors = <<>>
    /\ anchor_candidates = <<>>
    /\ generated = 0
    /\ recursion_depth = 0
    /\ popped = 0

InitSampler ==
    /\ sampler_pc = "start"
    /\ build \in {"debug", "release"}
    /\ lattice_step \in LatticeSteps
    /\ bounds \in { b \in [width : 1..MaxWidth, height : 1..MaxHeight] :
                        b.width * b.height <= MaxArea }
    /\ minimum_distance \in 1..MaxMinimumDistance
    /\ squared_minimum_distance = 0
    /\ final_anchors = <<>>
    /\ anchor_candidates = <<>>
    /\ generated = 0
    /\ recursion_depth = 0
    /\ popped = 0
    /\ IdleInputs
    /\ IdleScan
    /\ IdleRaster
    /\ IdleColor
    /\ IdleSquare
    /\ IdleHex

\* line 195 in a debug build: the multiplication panics on overflow
SquarePanics ==
    /\ sampler_pc = "start"
    /\ build = "debug"
    /\ SquareOverflows(minimum_distance, lattice_step)
    /\ sampler_pc' = "panicked"
    /\ UNCHANGED <<build, lattice_step, bounds, minimum_distance,
                   squared_minimum_distance, final_anchors, anchor_candidates,
                   generated, recursion_depth, popped>>
    /\ UNCHANGED notSampler

\* lines 193-210: the square, the seed point, the first push
Seed ==
    /\ sampler_pc = "start"
    /\ ~(build = "debug" /\ SquareOverflows(minimum_distance, lattice_step))
    /\ squared_minimum_distance' = WrappingSquare(minimum_distance, lattice_step)
    /\ \E fx \in 0..(bounds.width - 1), fy \in 0..(bounds.height - 1) :
          final_anchors' = <<Pt(fx, fy)>>
    /\ generated' = 0
    /\ sampler_pc' = "candidates"
    /\ UNCHANGED <<build, lattice_step, bounds, minimum_distance,
                   anchor_candidates, recursion_depth, popped>>
    /\ UNCHANGED notSampler

\* the source of the running generate_anchor_candidates call
Source == final_anchors[Len(final_anchors)]

\* one call of random_point_at_certain_distance draws a point inside the
\* bounds and returns it (line 175); generate_anchor_candidates pushes it
DrawInBounds ==
    /\ sampler_pc = "candidates"
    /\ \E p \in DrawnPoints(Source, minimum_distance, 2 * minimum_distance) :
          /\ InBounds(p, bounds)
          /\ anchor_candidates' = Append(anchor_candidates, p)
    /\ generated' = generated + 1
    /\ recursion_depth' = 0
    /\ sampler_pc' = IF generated + 1 = CandidatesPerAnchor THEN "loop" ELSE "candidates"
    /\ UNCHANGED <<build, lattice_step, bounds, minimum_distance,
                   squared_minimum_distance, final_anchors, popped>>
    /\ UNCHANGED notSampler

\* the draw falls outside the bounds and the function calls itself (line 177)
DrawOutOfBounds ==
    /\ sampler_pc = "candidates"
    /\ recursion_depth < MaxRecursion
    /\ \E p \in DrawnPoints(Source, minimum_distance, 2 * minimum_distance) :
          ~InBounds(p, bounds)
    /\ recursion_depth' = recursion_depth + 1
    /\ UNCHANGED <<sampler_pc, build, lattice_step, bounds, minimum_distance,
                   squared_minimum_distance, final_anchors, anchor_candidates,
                   generated, popped>>
    /\ UNCHANGED notSampler

\* a rejected candidate goes back to the end of the queue
PopCandidateRequeues ==
    /\ sampler_pc = "loop"
    /\ anchor_candidates # <<>>
    /\ LET candidate == Head(anchor_candidates)
           valid == IsValidAnchor(candidate, final_anchors, squared_minimum_distance)
       IN  /\ valid => Len(final_anchors) < MaxAccepted
           /\ anchor_candidates' = IF valid THEN Tail(anchor_candidates)
                                   ELSE Append(Tail(anchor_candidates), candidate)
           /\ popped' = popped + 1
           /\ final_anchors' = IF valid THEN Append(final_anchors, candidate)
                                        ELSE final_anchors
           /\ sampler_pc' = IF valid THEN "candidates" ELSE "loop"
           /\ generated' = 0
    /\ UNCHANGED <<build, lattice_step, bounds, minimum_distance,
                   squared_minimum_distance, recursion_depth>>
    /\ UNCHANGED notSampler

\* lines 214-239: pop the front candidate, accept or discard it
PopCandidate ==
    /\ sampler_pc = "loop"
    /\ anchor_candidates # <<>>
    /\ LET candidate == Head(anchor_candidates)
           valid == IsValidAnchor(candidate, final_anchors, squared_minimum_distance)
       IN  /\ valid => Len(final_anchors) < MaxAccepted
           /\ anchor_candidates' = Tail(anchor_candidates)
           /\ popped' = popped + 1
           /\ final_anchors' = IF valid THEN Append(final_anchors, candidate)
                                        ELSE final_anchors
           /\ sampler_pc' = IF valid THEN "candidates" ELSE "loop"
           /\ generated' = 0
    /\ UNCHANGED <<build, lattice_step, bounds, minimum_distance,
                   squared_minimum_distance, recursion_depth>>
    /\ UNCHANGED notSampler

\* lines 215-217 and 243: the queue is empty, the list is returned
ReturnAnchors ==
    /\ sampler_pc = "loop"
    /\ anchor_candidates = <<>>
    /\ sampler_pc' = "done"
    /\ UNCHANGED <<build, lattice_step, bounds, minimum_distance,
                   squared_minimum_distance, final_anchors, anchor_candidates,
                   generated, recursion_depth, popped>>
    /\ UNCHANGED notSampler

NextSampler ==
    \/ SquarePanics
    \/ Seed
    \/ DrawInBounds
    \/ DrawOutOfBounds
    \/ PopCandidate
    \/ ReturnAnchors

SpecSampler == InitSampler /\ [][NextSampler]_vars

\* the scheduler runs the function on; a draw that can fall inside the
\* bounds eventually does
FairSampler ==
    /\ WF_vars(SquarePanics)
    /\ WF_vars(Seed)
    /\ WF_vars(DrawInBounds)
    /\ WF_vars(PopCandidate)
    /\ WF_vars(ReturnAnchors)

SpecSamplerFair == InitSampler /\ [][NextSampler]_vars /\ FairSampler

----------------------------------------------------------------------------
(* Claims on generate_anchor_points *)

\* the requested minimum distance, squared (no wrap)
RequestedSquare == minimum_distance * minimum_distance

\* C1: in every state of generate_anchor_points, every pair of distinct
\* accepted points has squared distance >= minimumDistance^2
C1_MinimumSeparation ==
    \A i \in 1..Len(final_anchors), j \in 1..Len(final_anchors) :
        final_anchors[i] # final_anchors[j]
            => squared_distance_from(final_anchors[i], final_anchors[j]) >= RequestedSquare

\* the bounds are large relative to the minimum distance
LargeFactor == 3
LargeBounds ==
    /\ bounds.width >= LargeFactor * minimum_distance
    /\ bounds.height >= LargeFactor * minimum_distance

\* C2: with bounds large relative to the minimum distance the function
\* terminates: the queue runs empty and at least one anchor is returned
C2_Terminates ==
    LargeBounds => <>(sampler_pc = "done" /\ anchor_candidates = <<>>
                        /\ Len(final_anchors) >= 1)

----------------------------------------------------------------------------
(* Point::closest_anchor and pixel_calculator.  Lengths are in pixels;     *)
(* anchors sit on the pixel lattice.                                       *)

Colors == {"light", "dark"}

NoAnchor == [none |-> TRUE]

\* distance < x, where x = (minimum_distance_between_anchors / 2)^2 in f64
InsideInnerThreshold(distance, md) == 4 * distance < md * md

\* a strict minimum search: the inner threshold does not override
ScanStepNearest(self, anchor, md, closest) ==
    LET distance == squared_distance_from(self, anchor.point)
        adopted == [anchor |-> anchor, distance |-> distance]
    IN  IF closest = [none |-> TRUE]
        THEN adopted
        ELSE IF closest.distance > distance THEN adopted ELSE closest

\* one iteration of the loop of closest_anchor (lines 139-153) on `anchor`;
\* closest is NoAnchor or [anchor, distance]
ScanStep(self, anchor, md, closest) ==
    LET distance == squared_distance_from(self, anchor.point)
        adopted == [anchor |-> anchor, distance |-> distance]
    IN  IF InsideInnerThreshold(distance, md)
        THEN adopted
        ELSE IF closest = NoAnchor
             THEN adopted
             ELSE IF closest.distance > distance THEN adopted ELSE closest

RECURSIVE ScanAnchors(_, _, _, _, _)
\* the loop of closest_anchor from the k-th anchor on
ScanAnchors(self, list, md, k, closest) ==
    IF k > Len(list)
    THEN closest
    ELSE ScanAnchors(self, list, md, k + 1, ScanStep(self, list[k], md, closest))

\* Point::closest_anchor: NoAnchor or the anchor
closest_anchor(self, list, md) ==
    LET found == ScanAnchors(self, list, md, 1, NoAnchor)
    IN  IF found = NoAnchor THEN NoAnchor ELSE found.anchor

\* the x-window test of pixel_calculator (lines 257-258)
InWindow(anchor, x, md) ==
    /\ anchor.point.x > x - md
    /\ anchor.point.x < x + md

\* no cull: every anchor is kept
FilteredAnchorsAll(x, list, md) == list

\* filtered_anchors of pixel_calculator (lines 254-262)
FilteredAnchors(x, list, md) ==
    SelectSeq(list, LAMBDA anchor : InWindow(anchor, x, md))

RECURSIVE ColumnPixels(_, _, _, _, _)
\* the loop over y of pixel_calculator (lines 264-277), from row y on
ColumnPixels(x, height, filtered, md, y) ==
    IF y >= height
    THEN <<>>
    ELSE LET point == Pt(x, y)
             closest == closest_anchor(point, filtered, md)
             rest == ColumnPixels(x, height, filtered, md, y + 1)
         IN  IF closest = NoAnchor
             THEN rest
             ELSE <<[point |-> point, color |-> closest.color]>> \o rest

pixel_calculator(x, height, list, md) ==
    ColumnPixels(x, height, FilteredAnchors(x, list, md), md, 0)

\* the anchors of a synthetic call
ScanAnchorSet == [point : [x : 0..ScanGrid, y : 0..ScanGrid], color : Colors]

ScanAnchorLists ==
    UNION { [1..n -> ScanAnchorSet] : n \in 0..MaxScanAnchors }

InitScan ==
    /\ scan_pc = "call"
    /\ column \in 0..ScanGrid
    /\ image_width = 0
    /\ image_height \in 1..(ScanGrid + 1)
    /\ anchors \in ScanAnchorLists
    /\ minimum_distance_between_anchors \in 1..MaxPixelDistance
    /\ pixels = <<>>
    /\ IdleSampler
    /\ IdleRaster
    /\ IdleColor
    /\ IdleSquare
    /\ IdleHex

\* one call of pixel_calculator
PixelCalculator ==
    /\ scan_pc = "call"
    /\ pixels' = pixel_calculator(column, image_height, anchors,
                                  minimum_distance_between_anchors)
    /\ scan_pc' = "returned"
    /\ UNCHANGED <<column, inputVars>>
    /\ UNCHANGED notScan

NextScan == PixelCalculator

SpecScan == InitScan /\ [][NextScan]_vars

----------------------------------------------------------------------------
(* generate_voronoi_random_pattern: the banded rasterizer (lines 304-333)  *)
(* and the save of handle_subcommand_voronoi_random (lines 353-355)        *)

\* step_by(10) and 0..10 of lines 304 and 306
BandWidth == 10

Transparent == "transparent"

Columns == 0..(image_width - 1)
Rows == 0..(image_height - 1)

\* anchor lists generate_anchor_points can return for the rasterizer: not
\* empty, inside the bounds, pairwise at least the minimum distance apart;
\* the coordinates are multiples of AnchorStride
Strided(n) == { k \in 0..(n - 1) : k % AnchorStride = 0 }

RasterAnchorLists(w, h, md) ==
    { list \in UNION { [1..n -> [point : [x : Strided(w), y : Strided(h)],
                                 color : Colors]] : n \in 1..MaxRasterAnchors } :
        \A i \in 1..Len(list), j \in 1..Len(list) :
            i # j => squared_distance_from(list[i].point, list[j].point) >= md * md }

InitRaster ==
    /\ image_width \in 1..MaxImageWidth
    /\ image_height \in 1..MaxImageHeight
    /\ minimum_distance_between_anchors \in 1..MaxPixelDistance
    /\ anchors \in RasterAnchorLists(image_width, image_height,
                                     minimum_distance_between_anchors)
    /\ raster_pc = "for"
    /\ step = 0
    /\ thread_pool = <<>>
    /\ thread = [c \in Columns |-> "unspawned"]
    /\ results = [c \in Columns |-> <<>>]
    /\ img = [p \in [x : Columns, y : Rows] |-> Transparent]
    /\ put_log = <<>>
    /\ IdleSampler
    /\ IdleScan
    /\ IdleColor
    /\ IdleSquare
    /\ IdleHex

\* line 304: the next band starts
BeginBand ==
    /\ raster_pc = "for"
    /\ step < image_width
    /\ raster_pc' = "spawn"
    /\ UNCHANGED <<step, thread_pool, thread, results, img, put_log>>
    /\ UNCHANGED <<inputVars, notRaster>>

\* lines 306-316: one more worker of the band is spawned
Spawn ==
    /\ raster_pc = "spawn"
    /\ LET x == Len(thread_pool)
       IN  /\ x < BandWidth
           /\ ~((x + step) >= image_width)
           /\ thread' = [thread EXCEPT ![x + step] = "running"]
           /\ thread_pool' = Append(thread_pool, x + step)
    /\ UNCHANGED <<raster_pc, step, results, img, put_log>>
    /\ UNCHANGED <<inputVars, notRaster>>

\* the next band starts right after the spawn loop, the handles dropped
EndSpawnNoJoin ==
    /\ raster_pc = "spawn"
    /\ LET x == Len(thread_pool)
       IN  x = BandWidth \/ (x + step) >= image_width
    /\ raster_pc' = "for"
    /\ step' = step + BandWidth
    /\ thread_pool' = <<>>
    /\ UNCHANGED <<thread, results, img, put_log>>
    /\ UNCHANGED <<inputVars, notRaster>>

\* lines 306-308: the spawn loop ends, by its range or by the break
EndSpawn ==
    /\ raster_pc = "spawn"
    /\ LET x == Len(thread_pool)
       IN  x = BandWidth \/ (x + step) >= image_width
    /\ raster_pc' = "join"
    /\ UNCHANGED <<step, thread_pool, thread, results, img, put_log>>
    /\ UNCHANGED <<inputVars, notRaster>>

\* every pixel of the list is put into the first column of the band
PutPixelsAtBandStart(image, list) ==
    [p \in DOMAIN image |->
        IF p.x = step /\ \E n \in 1..Len(list) : list[n].point.y = p.y
        THEN list[CHOOSE n \in 1..Len(list) :
                    /\ list[n].point.y = p.y
                    /\ \A m \in (n + 1)..Len(list) : list[m].point.y # p.y].color
        ELSE image[p]]

RECURSIVE PutPixels(_, _)
\* the put_pixel calls of lines 322-324 on the image
PutPixels(image, list) ==
    IF list = <<>>
    THEN image
    ELSE PutPixels([image EXCEPT ![Head(list).point] = Head(list).color], Tail(list))

\* the coordinates of the put_pixel calls, in order
PutCoordinates(list) == [n \in 1..Len(list) |-> list[n].point]

\* a worker that puts its pixels into the shared image itself
WorkerWritesImage(c) ==
    /\ raster_pc \in {"spawn", "join"}
    /\ thread[c] = "running"
    /\ thread' = [thread EXCEPT ![c] = "finished"]
    /\ results' = [results EXCEPT ![c] = <<>>]
    /\ LET own == pixel_calculator(c, image_height, anchors,
                                   minimum_distance_between_anchors)
       IN  /\ img' = PutPixels(img, own)
           /\ put_log' = put_log \o PutCoordinates(own)
    /\ UNCHANGED <<raster_pc, step, thread_pool>>
    /\ UNCHANGED <<inputVars, notRaster>>

\* line 312: the worker of column c returns its pixels
WorkerReturns(c) ==
    /\ raster_pc \in {"spawn", "join"}
    /\ thread[c] = "running"
    /\ thread' = [thread EXCEPT ![c] = "finished"]
    /\ results' = [results EXCEPT ![c] =
                      pixel_calculator(c, image_height, anchors,
                                       minimum_distance_between_anchors)]
    /\ UNCHANGED <<raster_pc, step, thread_pool, img, put_log>>
    /\ UNCHANGED <<inputVars, notRaster>>

\* the worker of column c panics
WorkerPanics(c) ==
    /\ raster_pc \in {"spawn", "join"}
    /\ thread[c] = "running"
    /\ Cardinality({ d \in Columns : thread[d] = "panicked" }) < MaxPanics
    /\ thread' = [thread EXCEPT ![c] = "panicked"]
    /\ UNCHANGED <<raster_pc, step, thread_pool, results, img, put_log>>
    /\ UNCHANGED <<inputVars, notRaster>>

\* the handles are joined as their workers finish, whatever their place
JoinCompleted ==
    /\ raster_pc = "join"
    /\ thread_pool # <<>>
    /\ \E k \in 1..Len(thread_pool) :
          LET c == thread_pool[k]
          IN  /\ thread[c] = "finished"
              /\ img' = PutPixels(img, results[c])
              /\ put_log' = put_log \o PutCoordinates(results[c])
              /\ thread' = [thread EXCEPT ![c] = "joined"]
              /\ thread_pool' = SubSeq(thread_pool, 1, k - 1)
                                  \o SubSeq(thread_pool, k + 1, Len(thread_pool))
    /\ UNCHANGED <<raster_pc, step, results>>
    /\ UNCHANGED <<inputVars, notRaster>>

\* lines 319-325: the first handle of the pool is joined, its worker has
\* returned, and its pixels are put into the image
JoinWorker ==
    /\ raster_pc = "join"
    /\ thread_pool # <<>>
    /\ LET c == Head(thread_pool)
       IN  /\ thread[c] = "finished"
           /\ img' = PutPixels(img, results[c])
           /\ put_log' = put_log \o PutCoordinates(results[c])
           /\ thread' = [thread EXCEPT ![c] = "joined"]
    /\ thread_pool' = Tail(thread_pool)
    /\ UNCHANGED <<raster_pc, step, results>>
    /\ UNCHANGED <<inputVars, notRaster>>

\* the Err of join is dropped and the loop goes on
JoinPanickedIgnored ==
    /\ raster_pc = "join"
    /\ thread_pool # <<>>
    /\ thread[Head(thread_pool)] = "panicked"
    /\ thread_pool' = Tail(thread_pool)
    /\ UNCHANGED <<raster_pc, step, thread, results, img, put_log>>
    /\ UNCHANGED <<inputVars, notRaster>>

\* lines 326-328: the first handle of the pool is joined and its worker has
\* panicked: the panic is resumed in the coordinating thread
JoinPanicked ==
    /\ raster_pc = "join"
    /\ thread_pool # <<>>
    /\ thread[Head(thread_pool)] = "panicked"
    /\ raster_pc' = "aborted"
    /\ UNCHANGED <<step, thread_pool, thread, results, img, put_log>>
    /\ UNCHANGED <<inputVars, notRaster>>

\* the bands overlap by one column
EndJoinOverlap ==
    /\ raster_pc = "join"
    /\ thread_pool = <<>>
    /\ step' = step + BandWidth - 1
    /\ raster_pc' = "for"
    /\ UNCHANGED <<thread_pool, thread, results, img, put_log>>
    /\ UNCHANGED <<inputVars, notRaster>>

\* line 319 ends and line 304 advances by the band width
EndJoin ==
    /\ raster_pc = "join"
    /\ thread_pool = <<>>
    /\ step' = step + BandWidth
    /\ raster_pc' = "for"
    /\ UNCHANGED <<thread_pool, thread, results, img, put_log>>
    /\ UNCHANGED <<inputVars, notRaster>>

\* line 333: the image is returned to handle_subcommand_voronoi_random
ReturnImage ==
    /\ raster_pc = "for"
    /\ ~(step < image_width)
    /\ raster_pc' = "returned"
    /\ UNCHANGED <<step, thread_pool, thread, results, img, put_log>>
    /\ UNCHANGED <<inputVars, notRaster>>

\* lines 353-355: the returned image is saved
SaveImage ==
    /\ raster_pc = "returned"
    /\ raster_pc' = "saved"
    /\ UNCHANGED <<step, thread_pool, thread, results, img, put_log>>
    /\ UNCHANGED <<inputVars, notRaster>>

NextRaster ==
    \/ BeginBand
    \/ Spawn
    \/ EndSpawn
    \/ \E c \in Columns : WorkerReturns(c)
    \/ \E c \in Columns : WorkerPanics(c)
    \/ JoinWorker
    \/ JoinPanicked
    \/ EndJoin
    \/ ReturnImage
    \/ SaveImage

SpecRaster == InitRaster /\ [][NextRaster]_vars

----------------------------------------------------------------------------
(* generate_color_like (lines 14-25).  A colour is given by its Hsl        *)
(* coordinates; lightness is counted in twelfths of a lightness step, so   *)
(* that lightness * 3 / 4 and lightness * 4 / 3 are whole numbers.         *)

LightnessUnit == 12

BaseColors ==
    [hue : 0..MaxHue, saturation : 0..MaxSaturation,
     lightness : { LightnessUnit * n : n \in 0..MaxLightness }]

\* lines 18-19
min_lightness(hsl) == (hsl.lightness * 3) \div 4
max_lightness(hsl) == (hsl.lightness * 4) \div 3

\* the range min_lightness..max_lightness of line 21, the upper end excluded
LightnessRange(hsl) ==
    { l \in min_lightness(hsl)..max_lightness(hsl) : l < max_lightness(hsl) }

InitColor ==
    /\ color_pc = "call"
    /\ base_color \in BaseColors
    /\ new_color = NoColor
    /\ IdleSampler
    /\ IdleInputs
    /\ IdleScan
    /\ IdleRaster
    /\ IdleSquare
    /\ IdleHex

\* lines 15-24: a lightness is drawn from the range and the colour returned
GenerateColorLike ==
    /\ color_pc = "call"
    /\ \E new_lightness \in LightnessRange(base_color) :
          new_color' = [hue |-> base_color.hue,
                        saturation |-> base_color.saturation,
                        lightness |-> new_lightness]
    /\ color_pc' = "returned"
    /\ UNCHANGED <<base_color, notColor>>

\* line 21: gen_range panics on an empty range
EmptyRangePanics ==
    /\ color_pc = "call"
    /\ LightnessRange(base_color) = {}
    /\ color_pc' = "panicked"
    /\ UNCHANGED <<new_color, base_color, notColor>>

NextColor ==
    \/ GenerateColorLike
    \/ EmptyRangePanics

SpecColor == InitColor /\ [][NextColor]_vars

\* C9: on a base colour of lightness 0 generate_color_like returns
\* normally, and returns the base colour
C9_ZeroLightnessUnchanged ==
    (color_pc # "call" /\ base_color.lightness = 0)
        => (color_pc = "returned" /\ new_color = base_color)

----------------------------------------------------------------------------
(* generate_square_pattern (lines 402-421) *)

\* u32 as f32: 24 significant bits, ties to even
F32Exact == 16777216

RECURSIVE Ulp(_)
\* the spacing of the f32 values at n >= 0
Ulp(n) == IF n < F32Exact THEN 1 ELSE 2 * Ulp(n \div 2)

\* the multiple of u nearest to num / den (den > 0), ties to the even one
NearestMultiple(num, den, u) ==
    LET m == num \div (den * u)
        twice == 2 * (num - m * den * u)
    IN  IF twice < den * u THEN m * u
        ELSE IF twice > den * u THEN (m + 1) * u
        ELSE IF m % 2 = 0 THEN m * u ELSE (m + 1) * u

\* (n as f32), as a number
AsF32(n) == NearestMultiple(n, 1, Ulp(n))

RECURSIVE Log2(_)
Log2(n) == IF n < 2 THEN 0 ELSE 1 + Log2(n \div 2)

RECURSIVE Pow2(_)
Pow2(k) == IF k = 0 THEN 1 ELSE 2 * Pow2(k - 1)

\* f32::ceil(a / b) for f32 values a >= 0, b > 0 that are whole numbers
CeilOfF32Quotient(a, b) ==
    LET n == a \div b
        r == a % b
    IN  IF r = 0 THEN n
        ELSE IF n = 0 THEN 1
        ELSE IF n >= F32Exact \div 2
             \* the quotient rounds to a whole number
             THEN NearestMultiple(a, b, Ulp(n))
             \* the quotient rounds down to n only within half a spacing of n
             ELSE IF r <= b \div Pow2(24 - Log2(n)) THEN n ELSE n + 1

\* the loop bounds of lines 410 and 411
TileColumns(width, size) == CeilOfF32Quotient(AsF32(width), AsF32(size))
TileRows(height, size) == CeilOfF32Quotient(AsF32(height), AsF32(size))

Min(a, b) == IF a < b THEN a ELSE b

\* Rect::at(x, y).of_size(size, size) cut to the canvas by
\* draw_filled_rect_mut: left and top included, right and bottom excluded
ClippedRect(i, j, size, width, height) ==
    [left |-> Min(i * size, width), right |-> Min((i + 1) * size, width),
     top |-> Min(j * size, height), bottom |-> Min((j + 1) * size, height)]

\* the tile colours drawn by generate_color_like: the two ends of its range
TileLightness(hsl) ==
    { l \in LightnessRange(hsl) :
        l = min_lightness(hsl) \/ l = max_lightness(hsl) - 1 }

CeilDiv(a, b) == (a + b - 1) \div b

InitSquare ==
    /\ square_pc = "loop"
    /\ image_width \in (1..MaxSquareWidth) \cup {F32Exact + 1}
    /\ image_height \in 1..MaxSquareHeight
    /\ pattern_size \in (1..MaxSquareSize) \cup {F32Exact \div 2}
    /\ CeilDiv(image_width, pattern_size) * CeilDiv(image_height, pattern_size)
          <= MaxTiles
    /\ base_color \in { c \in BaseColors :
                          c.hue = 0 /\ c.saturation = 0 /\ c.lightness <= LightnessUnit }
    /\ tile_i = 0
    /\ tile_j = 0
    /\ drawn = <<>>
    /\ anchors = <<>>
    /\ minimum_distance_between_anchors = 0
    /\ IdleSampler
    /\ IdleScan
    /\ IdleRaster
    /\ color_pc = "idle"
    /\ new_color = NoColor
    /\ IdleHex

\* the loop indices after the body of tile (i, j)
NextTile(i, j) ==
    IF j + 1 < TileRows(image_height, pattern_size)
    THEN [i |-> i, j |-> j + 1]
    ELSE [i |-> i + 1, j |-> 0]

\* lines 412-416: one tile is coloured and drawn
DrawTile ==
    /\ square_pc = "loop"
    /\ tile_i < TileColumns(image_width, pattern_size)
    /\ tile_j < TileRows(image_height, pattern_size)
    /\ \E lightness \in TileLightness(base_color) :
          drawn' = Append(drawn,
                          [i |-> tile_i, j |-> tile_j, lightness |-> lightness,
                           rect |-> ClippedRect(tile_i, tile_j, pattern_size,
                                                image_width, image_height)])
    /\ tile_i' = NextTile(tile_i, tile_j).i
    /\ tile_j' = NextTile(tile_i, tile_j).j
    /\ UNCHANGED <<square_pc, pattern_size, base_color, inputVars, notSquare>>

\* line 412: generate_color_like panics (line 21)
TileColorPanics ==
    /\ square_pc = "loop"
    /\ tile_i < TileColumns(image_width, pattern_size)
    /\ tile_j < TileRows(image_height, pattern_size)
    /\ LightnessRange(base_color) = {}
    /\ square_pc' = "panicked"
    /\ UNCHANGED <<pattern_size, tile_i, tile_j, drawn, base_color, inputVars,
                   notSquare>>

\* line 420: the loops are over, the image is returned
ReturnSquares ==
    /\ square_pc = "loop"
    /\ ~(/\ tile_i < TileColumns(image_width, pattern_size)
         /\ tile_j < TileRows(image_height, pattern_size))
    /\ square_pc' = "returned"
    /\ UNCHANGED <<pattern_size, tile_i, tile_j, drawn, base_color, inputVars,
                   notSquare>>

NextSquare ==
    \/ DrawTile
    \/ TileColorPanics
    \/ ReturnSquares

SpecSquare == InitSquare /\ [][NextSquare]_vars

\* the draws that cover pixel (x, y), by position
Covering(x, y) ==
    { n \in 1..Len(drawn) :
        /\ drawn[n].rect.left <= x /\ x < drawn[n].rect.right
        /\ drawn[n].rect.top <= y /\ y < drawn[n].rect.bottom }

\* the first and the last ProbeLimit of the coordinates 0..n-1
Probe(n) ==
    { k \in 0..(ProbeLimit - 1) : k < n }
        \cup { n - k : k \in { m \in 1..ProbeLimit : m <= n } }

\* C10: when generate_square_pattern ends it has returned, it has drawn
\* exactly ceil(width/size) * ceil(height/size) tiles, and every pixel
\* (x, y) looked at is covered and was last drawn by tile
\* (floor(x/size), floor(y/size)), the only tile that covers it
C10_TilesCoverCanvas ==
    square_pc # "loop" =>
        /\ square_pc = "returned"
        /\ Len(drawn) = CeilDiv(image_width, pattern_size)
                          * CeilDiv(image_height, pattern_size)
        /\ \A x \in Probe(image_width), y \in Probe(image_height) :
              /\ Cardinality(Covering(x, y)) = 1
              /\ \A n \in Covering(x, y) :
                    /\ drawn[n].i = x \div pattern_size
                    /\ drawn[n].j = y \div pattern_size

----------------------------------------------------------------------------
(* generate_hexagon_anchors (lines 423-466).  The x coordinates are whole  *)
(* or half pixels, which f64 holds exactly, and are counted in half        *)
(* pixels.  A y coordinate is the f64 product k * half_height of a whole   *)
(* k and the one half_height of the call, and is given by k.               *)

HexPoint(half_pixels, half_heights) == [x |-> half_pixels, y |-> half_heights]

\* the % of Rust: the remainder has the sign of the dividend
RustRem(a, b) == IF a >= 0 THEN a % b ELSE -((-a) % b)

\* ceil(height / half_height) of line 430, half_height = sin(pi/3) * size:
\* the least n with n * size * sqrt(3) >= 2 * height
CeilOverHalfHeight(height, size) ==
    CHOOSE n \in 0..(2 * height) :
        /\ 3 * n * n * size * size >= 4 * height * height
        /\ \A m \in 0..(n - 1) : 3 * m * m * size * size < 4 * height * height

\* the ranges of lines 428 and 429-430, the upper ends excluded
ColumnStep(size) == 3 * size
FirstRow(size) == -size
RowEnd(height, size) == CeilOverHalfHeight(height, size) + 1

\* lines 432-435, in half pixels
NoOffsetAnchorX(i, j, size) == 2 * i
AnchorX(i, j, size) ==
    IF RustRem(j, 2) = 0 THEN 2 * i ELSE 2 * i + 3 * size

\* lines 437-460
Hexagon(i, j, size) ==
    LET anchor_x == AnchorX(i, j, size)
    IN  << HexPoint(anchor_x, j),
           HexPoint(anchor_x + 2 * size, j),
           HexPoint(anchor_x + 3 * size, j + 1),
           HexPoint(anchor_x + 2 * size, j + 2),
           HexPoint(anchor_x, j + 2),
           HexPoint(anchor_x - size, j + 1) >>

InitHex ==
    /\ hex_pc = "loop"
    /\ image_width \in 1..MaxHexWidth
    /\ image_height \in 1..MaxHexHeight
    /\ pattern_size \in 1..MaxHexSize
    /\ hex_i = -pattern_size
    /\ hex_j = -pattern_size
    /\ hexagon_anchors = <<>>
    /\ anchors = <<>>
    /\ minimum_distance_between_anchors = 0
    /\ square_pc = "idle"
    /\ tile_i = 0
    /\ tile_j = 0
    /\ drawn = <<>>
    /\ IdleSampler
    /\ IdleScan
    /\ IdleRaster
    /\ IdleColor

\* lines 428-462: one hexagon is pushed and the loops advance
PushHexagon ==
    /\ hex_pc = "loop"
    /\ hex_i < image_width
    /\ hexagon_anchors' = Append(hexagon_anchors, Hexagon(hex_i, hex_j, pattern_size))
    /\ IF hex_j + 1 < RowEnd(image_height, pattern_size)
       THEN /\ hex_j' = hex_j + 1
            /\ hex_i' = hex_i
       ELSE /\ hex_j' = FirstRow(pattern_size)
            /\ hex_i' = hex_i + ColumnStep(pattern_size)
    /\ UNCHANGED <<hex_pc, notHex>>

\* line 465
ReturnHexagons ==
    /\ hex_pc = "loop"
    /\ hex_i >= image_width
    /\ hex_pc' = "returned"
    /\ UNCHANGED <<hex_i, hex_j, hexagon_anchors, notHex>>

NextHex ==
    \/ PushHexagon
    \/ ReturnHexagons

SpecHex == InitHex /\ [][NextHex]_vars

----------------------------------------------------------------------------
(* Claims on the hexagon lattice *)

\* the row and the column (counted from 0) of the n-th hexagon pushed
RowsPerColumn == RowEnd(image_height, pattern_size) - FirstRow(pattern_size)
HexRowOf(n) == FirstRow(pattern_size) + ((n - 1) % RowsPerColumn)
HexColumnOf(n) == (n - 1) \div RowsPerColumn
IsEvenRow(n) == HexRowOf(n) % 2 = 0

\* b is the hexagon of the next row to the right of a
RightBelow(a, b) ==
    /\ HexRowOf(b) = HexRowOf(a) + 1
    /\ HexColumnOf(b) = HexColumnOf(a) + (IF IsEvenRow(a) THEN 0 ELSE 1)

\* b is the hexagon of the next row to the left of a
LeftBelow(a, b) ==
    /\ HexRowOf(b) = HexRowOf(a) + 1
    /\ HexColumnOf(b) = HexColumnOf(a) - (IF IsEvenRow(a) THEN 1 ELSE 0)

\* b is the hexagon of the same column two rows on
TwoBelow(a, b) ==
    /\ HexRowOf(b) = HexRowOf(a) + 2
    /\ HexColumnOf(b) = HexColumnOf(a)

\* C11: the vertices shared by adjacent hexagons are the same points in
\* both: 3/4 are 1/6 of the next-row hexagon to the right, 6/5 are 2/3 of
\* the next-row hexagon to the left, 5/4 are 1/2 of the same-column hexagon
\* two rows on, for rows of negative index too
C11_SharedVerticesCoincide ==
    \A a, b \in 1..Len(hexagon_anchors) :
        /\ RightBelow(a, b) =>
              /\ hexagon_anchors[a][3] = hexagon_anchors[b][1]
              /\ hexagon_anchors[a][4] = hexagon_anchors[b][6]
        /\ LeftBelow(a, b) =>
              /\ hexagon_anchors[a][6] = hexagon_anchors[b][2]
              /\ hexagon_anchors[a][5] = hexagon_anchors[b][3]
        /\ TwoBelow(a, b) =>
              /\ hexagon_anchors[a][5] = hexagon_anchors[b][1]
              /\ hexagon_anchors[a][4] = hexagon_anchors[b][2]

\* a returned lattice with all three kinds of neighbours on rows of
\* negative index, the first two across the column step
C11_Witness ==
    /\ hex_pc = "returned"
    /\ \E a, b \in 1..Len(hexagon_anchors) :
          /\ RightBelow(a, b) /\ HexRowOf(a) < 0
          /\ HexColumnOf(b) = HexColumnOf(a) + 1
    /\ \E a, b \in 1..Len(hexagon_anchors) :
          /\ LeftBelow(a, b) /\ HexRowOf(a) < 0
          /\ HexColumnOf(b) = HexColumnOf(a) - 1
    /\ \E a, b \in 1..Len(hexagon_anchors) :
          TwoBelow(a, b) /\ HexRowOf(a) < 0

----------------------------------------------------------------------------
(* Claims on the per-pixel scan *)

\* the rows for which the returned list holds a pixel (column, y)
ReportedRows == { pixels[n].point.y : n \in 1..Len(pixels) }

\* the colours the returned list gives to pixel (column, y)
ReportedColors(y) ==
    { pixels[n].color : n \in { m \in 1..Len(pixels) : pixels[m].point = Pt(column, y) } }

PixelDistance(k, y) == squared_distance_from(Pt(column, y), anchors[k].point)

\* the anchors inside the inner threshold of pixel (column, y), by position
InsideOf(y) ==
    { k \in 1..Len(anchors) :
        4 * PixelDistance(k, y) < minimum_distance_between_anchors
                                    * minimum_distance_between_anchors }

\* the anchors in the x-window of the column, by position
WindowOf ==
    { k \in 1..Len(anchors) :
        /\ anchors[k].point.x > column - minimum_distance_between_anchors
        /\ anchors[k].point.x < column + minimum_distance_between_anchors }

FirstOf(S) == CHOOSE k \in S : \A m \in S : k <= m
LastOf(S) == CHOOSE k \in S : \A m \in S : k >= m

\* C3 as stated: with two anchors inside the inner threshold the pixel
\* takes the colour of the one processed first
C3_FirstInsideWins ==
    scan_pc = "returned" =>
        \A y \in 0..(image_height - 1) :
            Cardinality(InsideOf(y)) >= 2
                => ReportedColors(y) = {anchors[FirstOf(InsideOf(y))].color}

\* C3 amended: with two anchors inside the inner threshold the pixel takes
\* the colour of the one processed last, nearer or not
C3_LastInsideWins ==
    scan_pc = "returned" =>
        \A y \in 0..(image_height - 1) :
            Cardinality(InsideOf(y)) >= 2
                => ReportedColors(y) = {anchors[LastOf(InsideOf(y))].color}

\* a call where the anchor processed last inside the threshold is the
\* farther of two of different colours
C3_Witness ==
    /\ scan_pc = "returned"
    /\ \E y \in 0..(image_height - 1) :
          /\ Cardinality(InsideOf(y)) = 2
          /\ PixelDistance(LastOf(InsideOf(y)), y) > PixelDistance(FirstOf(InsideOf(y)), y)
          /\ anchors[LastOf(InsideOf(y))].color # anchors[FirstOf(InsideOf(y))].color
          /\ ReportedColors(y) = {anchors[LastOf(InsideOf(y))].color}

\* the anchors are pairwise farther apart than the minimum distance
PairwiseFarther ==
    \A i \in 1..Len(anchors), j \in 1..Len(anchors) :
        i # j => squared_distance_from(anchors[i].point, anchors[j].point)
                    > minimum_distance_between_anchors * minimum_distance_between_anchors

\* the anchors of the window nearest to pixel (column, y)
NearestInWindow(y) ==
    { k \in WindowOf : \A m \in WindowOf : PixelDistance(k, y) <= PixelDistance(m, y) }

\* C4: with anchors pairwise farther apart than the minimum distance, every
\* reported pixel has the colour of a nearest anchor of the column's
\* x-window, each row of a column with a non-empty window is reported once,
\* and no other pixel is
C4_NearestInWindow ==
    (scan_pc = "returned" /\ PairwiseFarther) =>
        /\ \A n \in 1..Len(pixels) :
              /\ pixels[n].point.x = column
              /\ pixels[n].point.y \in 0..(image_height - 1)
              /\ \E k \in NearestInWindow(pixels[n].point.y) :
                    pixels[n].color = anchors[k].color
        /\ WindowOf # {} => /\ ReportedRows = 0..(image_height - 1)
                            /\ Len(pixels) = image_height
        /\ WindowOf = {} => pixels = <<>>

\* a call where the second of two window anchors of different colours is
\* the only one inside the inner threshold of a pixel: the override fires
C4_Witness ==
    /\ scan_pc = "returned"
    /\ PairwiseFarther
    /\ Len(anchors) = 2
    /\ WindowOf = {1, 2}
    /\ anchors[1].color # anchors[2].color
    /\ \E y \in 0..(image_height - 1) :
          /\ InsideOf(y) = {2}
          /\ ReportedColors(y) = {anchors[2].color}

----------------------------------------------------------------------------
(* Claims on the rasterizer *)

\* the workers spawned and not yet joined
Alive == { c \in Columns : thread[c] \in {"running", "finished", "panicked"} }

Panicked == { c \in Columns : thread[c] = "panicked" }

\* the columns of the band that starts at column s
Band(s) == { c \in Columns : s <= c /\ c < s + BandWidth }

C6_BandsInOrder ==
    /\ Cardinality(Alive) <= BandWidth
    /\ Alive \subseteq Band(step)
    /\ \A c \in Columns : c < step => thread[c] = "joined"
    /\ \A c \in Columns : c >= step + BandWidth => thread[c] = "unspawned"

\* a worker of the second band runs
C6_Witness ==
    /\ step = BandWidth
    /\ \E c \in Columns : thread[c] = "running"

\* the number of put_pixel calls at pixel p
PutCount(p) == Cardinality({ n \in 1..Len(put_log) : put_log[n] = p })

\* column x has an anchor in its x-window
ColumnHasAnchor(x) ==
    \E k \in 1..Len(anchors) :
        /\ anchors[k].point.x > x - minimum_distance_between_anchors
        /\ anchors[k].point.x < x + minimum_distance_between_anchors

\* C7: no pixel is ever put twice or outside the canvas; when the image is
\* returned, a pixel has been put exactly once if its column has an anchor
\* in its x-window, and never (it is still transparent) if not
C7_PutOncePerPixel ==
    /\ \A n \in 1..Len(put_log) : put_log[n] \in [x : Columns, y : Rows]
    /\ \A p \in [x : Columns, y : Rows] : PutCount(p) <= 1
    /\ raster_pc \in {"returned", "saved"} =>
          \A p \in [x : Columns, y : Rows] :
              /\ ColumnHasAnchor(p.x) => (PutCount(p) = 1 /\ img[p] # Transparent)
              /\ ~ColumnHasAnchor(p.x) => (PutCount(p) = 0 /\ img[p] = Transparent)

\* an image is returned with written and with unwritten columns
C7_Witness ==
    /\ raster_pc = "returned"
    /\ \E p \in [x : Columns, y : Rows] : PutCount(p) = 1 /\ img[p] # Transparent
    /\ \E p \in [x : Columns, y : Rows] : PutCount(p) = 0 /\ img[p] = Transparent

\* C8: once a worker has panicked the image is never returned or saved and
\* no later band is started; when the coordinating thread joins the
\* panicked worker it aborts, and an aborted run stays aborted
C8_FailFast ==
    [][/\ Panicked # {} =>
            /\ raster_pc' \notin {"returned", "saved"}
            /\ step' = step
            /\ Panicked \subseteq { c \in Columns : thread'[c] = "panicked" }
       /\ (/\ raster_pc = "join"
           /\ thread_pool # <<>>
           /\ thread[Head(thread_pool)] = "panicked"
           /\ <<raster_pc, thread_pool, img>>' # <<raster_pc, thread_pool, img>>)
            => (raster_pc' = "aborted" /\ img' = img)
       /\ raster_pc = "aborted" => UNCHANGED rasterVars]_vars

\* the run has aborted on a panicked worker with part of the image written
C8_Witness ==
    /\ raster_pc = "aborted"
    /\ put_log # <<>>
    /\ thread[Head(thread_pool)] = "panicked"

\* the band of a put_pixel call
BandOf(p) == p.x \div BandWidth

\* C12: the put_pixel calls come in a fixed order, whatever the order the
\* workers finish in: the pixels of a band before those of any later band
\* and, within a band, the pixels of a column before those of the next
C12_WritesInColumnOrder ==
    \A m, n \in 1..Len(put_log) :
        m < n =>
            /\ BandOf(put_log[m]) <= BandOf(put_log[n])
            /\ BandOf(put_log[m]) = BandOf(put_log[n]) => put_log[m].x <= put_log[n].x

\* an image returned after writes to two columns of one band and to a
\* later band
C12_Witness ==
    /\ raster_pc = "returned"
    /\ \E m, n \in 1..Len(put_log) :
          BandOf(put_log[m]) = BandOf(put_log[n]) /\ put_log[m].x # put_log[n].x
    /\ \E m, n \in 1..Len(put_log) : BandOf(put_log[m]) # BandOf(put_log[n])

\* the colour pixel_calculator reports for pixel p in the call for column
\* p.x, Transparent when it reports none
ExpectedColor(p) ==
    LET own == pixel_calculator(p.x, image_height, anchors,
                                minimum_distance_between_anchors)
    IN  IF \E n \in 1..Len(own) : own[n].point = p
        THEN own[CHOOSE n \in 1..Len(own) : own[n].point = p].color
        ELSE Transparent

\* C15: the image depends on the anchors, the width, the height and the
\* minimum distance only, whatever the interleaving of the workers: a
\* worker's list is the result of pixel_calculator for its own column, a
\* pixel of column x is transparent or what the worker of column x
\* reported for it, and the returned image is the same for every run
C15_SameImageForEveryInterleaving ==
    /\ \A c \in Columns :
          results[c] # <<>> =>
              results[c] = pixel_calculator(c, image_height, anchors,
                                            minimum_distance_between_anchors)
    /\ \A p \in [x : Columns, y : Rows] : img[p] \in {Transparent, ExpectedColor(p)}
    /\ raster_pc \in {"returned", "saved"} =>
          img = [p \in [x : Columns, y : Rows] |-> ExpectedColor(p)]

\* an image returned with pixels of two workers of one band
C15_Witness ==
    /\ raster_pc \in {"returned", "saved"}
    /\ \E p, q \in [x : Columns, y : Rows] :
          /\ p.x # q.x /\ BandOf(p) = BandOf(q)
          /\ img[p] # Transparent /\ img[q] # Transparent

----------------------------------------------------------------------------
(* Claims on the queue of generate_anchor_points *)

\* the step pops a candidate
Pops == popped' = popped + 1

\* C13: candidates are popped from the front and pushed to the back; the
\* popped candidate is accepted, and appended to the accepted list, if and
\* only if its squared distance to every accepted point is at least
\* minimumDistance^2; a rejected one leaves the accepted list and the
\* rest of the queue as they were
C13_FifoAcceptIff ==
    [][/\ Pops =>
            LET candidate == Head(anchor_candidates)
                far == \A k \in 1..Len(final_anchors) :
                          squared_distance_from(final_anchors[k], candidate)
                              >= RequestedSquare
            IN  /\ anchor_candidates # <<>>
                /\ anchor_candidates' = Tail(anchor_candidates)
                /\ far => final_anchors' = Append(final_anchors, candidate)
                /\ ~far => final_anchors' = final_anchors
       /\ ~Pops =>
            \/ anchor_candidates' = anchor_candidates
            \/ /\ Len(anchor_candidates') = Len(anchor_candidates) + 1
               /\ SubSeq(anchor_candidates', 1, Len(anchor_candidates))
                     = anchor_candidates]_vars

\* p is strictly inside the bounds
StrictlyInside(p) ==
    /\ 0 < p.x /\ p.x < bounds.width
    /\ 0 < p.y /\ p.y < bounds.height

\* C14: the seed has 0 <= x < width and 0 <= y < height; every candidate,
\* hence every later accepted point, is strictly inside the bounds, and a
\* candidate is pushed at a distance in [minimumDistance,
\* 2 * minimumDistance] from the last accepted point, which generates it
C14_PointsInsideBounds ==
    /\ [](/\ final_anchors # <<>> =>
                /\ 0 <= final_anchors[1].x /\ final_anchors[1].x < bounds.width
                /\ 0 <= final_anchors[1].y /\ final_anchors[1].y < bounds.height
          /\ \A k \in 2..Len(final_anchors) : StrictlyInside(final_anchors[k])
          /\ \A k \in 1..Len(anchor_candidates) : StrictlyInside(anchor_candidates[k]))
    /\ [][Len(anchor_candidates') > Len(anchor_candidates) =>
            LET pushed == anchor_candidates'[Len(anchor_candidates')]
                source == final_anchors[Len(final_anchors)]
            IN  /\ squared_distance_from(source, pushed) >= RequestedSquare
                /\ squared_distance_from(source, pushed) <= 4 * RequestedSquare]_vars

\* a second point is accepted next to a seed on the edge of the bounds,
\* with candidates waiting
C14_Witness ==
    /\ Len(final_anchors) >= 2
    /\ final_anchors[1].x = 0
    /\ anchor_candidates # <<>>

\* C16: at the head of the main loop the candidates in the queue and the
\* candidates popped so far are 25 for each accepted point; at termination
\* the queue is empty, so 25 * |accepted| candidates have been evaluated;
\* the accepted points are the seed and the accepted candidates
C16_CandidateCount ==
    /\ sampler_pc \in {"loop", "done"} =>
          Len(anchor_candidates) + popped = CandidatesPerAnchor * Len(final_anchors)
    /\ sampler_pc = "done" =>
          /\ popped = CandidatesPerAnchor * Len(final_anchors)
          /\ anchor_candidates = <<>>
          /\ Len(final_anchors) >= 1

\* the function returns after accepting and after rejecting candidates
C16_Witness ==
    /\ sampler_pc = "done"
    /\ Len(final_anchors) >= 2
    /\ popped > Len(final_anchors)

====
